---- MODULE Spec2Model ----
\* The hydra/pydantic/union demo: the configuration model of the three variants
\* (src/app, src/flyte_hydra + src/main.py, src/my_app), its validation, and the
\* driver app() that submits my_workflow with the configuration as input.
EXTENDS Integers, Sequences, FiniteSets, Bags, TLC

\* ---------------------------------------------------------------- bounds
\* n_estimators and max_depth are drawn from 0..MaxInt
MaxInt == 3
\* the features list has at most MaxFeatures columns
MaxFeatures == 2
\* reals are the multiples of 1/LrDen: PyFloat(n) is n/LrDen
LrDen == 2

\* ---------------------------------------------------------------- values
\* A scalar of the nested input or of a constructed object. kind is the Python
\* type: "int", "float", "str", "missing" (key absent), or the variant's Loss
\* class: "StrEnum" (src/app) or "Enum" (src/flyte_hydra).
PyInt(n) == [kind |-> "int", num |-> n, txt |-> ""]
PyFloat(n) == [kind |-> "float", num |-> n, txt |-> ""]
PyStr(s) == [kind |-> "str", num |-> 0, txt |-> s]
Missing == [kind |-> "missing", num |-> 0, txt |-> ""]

\* Python's == between two scalars: a StrEnum member is a str and equals its
\* value; a plain Enum member equals only itself.
PyEq(a, b) ==
    \/ a = b
    \/ /\ {a.kind, b.kind} = {"StrEnum", "str"}
       /\ a.txt = b.txt

Variants == {"app", "flyte_hydra", "my_app"}
\* the variants whose Hyperparameters carries the Field constraints and the validator
Constrained == {"app", "flyte_hydra"}

\* ---------------------------------------------------------------- field validation
Ok(v) == [ok |-> TRUE, val |-> v, type |-> ""]
Fail(t) == [ok |-> FALSE, val |-> Missing, type |-> t]

\* the decimal texts the inputs use, and the integer each one parses to
IntTexts == {"5432", "0"}
IntOfText(t) == IF t = "5432" THEN 5432 ELSE 0

\* a field annotated str: text is kept, nothing else is converted to text
str_field(v) ==
    CASE v.kind = "str" -> Ok(v)
      [] v.kind = "missing" -> Fail("missing")
      [] OTHER -> Fail("string_type")

\* int_field in strict mode: no text is parsed
int_field_strict(v) ==
    CASE v.kind = "int" -> Ok(v)
      [] v.kind = "missing" -> Fail("missing")
      [] OTHER -> Fail("int_type")

\* a field annotated int: an integer is kept, a decimal text is parsed, a real
\* with no fractional part is converted
int_field(v) ==
    CASE v.kind = "int" -> Ok(v)
      [] v.kind = "str" ->
            IF v.txt \in IntTexts THEN Ok(PyInt(IntOfText(v.txt))) ELSE Fail("int_parsing")
      [] v.kind = "float" ->
            IF v.num % LrDen = 0 THEN Ok(PyInt(v.num \div LrDen)) ELSE Fail("int_from_float")
      [] v.kind = "missing" -> Fail("missing")
      [] OTHER -> Fail("int_type")

\* a field annotated float: a real is kept, an integer is converted
float_field(v) ==
    CASE v.kind = "float" -> Ok(v)
      [] v.kind = "int" -> Ok(PyFloat(v.num * LrDen))
      [] v.kind = "str" -> Fail("float_parsing")
      [] v.kind = "missing" -> Fail("missing")
      [] OTHER -> Fail("float_type")

\* Field(ge=0.0, le=1.0) in place of Field(gt=0.0, lt=1.0)
ge0_le1(v) ==
    LET r == float_field(v)
    IN  IF ~r.ok THEN r
        ELSE IF ~(r.val.num >= 0) THEN Fail("greater_than_equal")
        ELSE IF ~(r.val.num <= LrDen) THEN Fail("less_than_equal")
        ELSE r

\* Annotated[float, Field(gt=0.0, lt=1.0)]
gt0_lt1(v) ==
    LET r == float_field(v)
    IN  IF ~r.ok THEN r
        ELSE IF ~(r.val.num > 0) THEN Fail("greater_than")
        ELSE IF ~(r.val.num < LrDen) THEN Fail("less_than")
        ELSE r

\* Field(ge=0) in place of Field(ge=1)
ge0(v) ==
    LET r == int_field(v)
    IN  IF ~r.ok THEN r
        ELSE IF ~(r.val.num >= 0) THEN Fail("greater_than_equal")
        ELSE r

\* Annotated[int, Field(ge=1)]
ge1(v) ==
    LET r == int_field(v)
    IN  IF ~r.ok THEN r
        ELSE IF ~(r.val.num >= 1) THEN Fail("greater_than_equal")
        ELSE r

\* class Loss: the four values of the enumeration
LossValues == {"squared_error", "absolute_error", "huber", "quantile"}

\* Loss matched without regard to case
LossIgnoringCase(cls, v) ==
    CASE v.kind = cls -> Ok(v)
      [] v.kind = "str" /\ v.txt \in LossValues -> Ok([kind |-> cls, num |-> 0, txt |-> v.txt])
      [] v.kind = "str" /\ v.txt = "Huber" -> Ok([kind |-> cls, num |-> 0, txt |-> "huber"])
      [] v.kind = "missing" -> Fail("missing")
      [] OTHER -> Fail("enum")

\* a field annotated Loss: the member whose value is the given text (a member
\* of the class itself is kept)
Loss(cls, v) ==
    CASE v.kind = cls -> Ok(v)
      [] v.kind = "str" /\ v.txt \in LossValues -> Ok([kind |-> cls, num |-> 0, txt |-> v.txt])
      [] v.kind = "missing" -> Fail("missing")
      [] OTHER -> Fail("enum")

LossClass(v) == IF v = "app" THEN "StrEnum" ELSE "Enum"

\* ---------------------------------------------------------------- entities
\* Each entity validator returns [val, errs]: the value built from the validated
\* fields and the set of <<field, error type>> of the fields that failed.
FieldErrs(res) == {<<f, res[f].type>> : f \in {g \in DOMAIN res : ~res[g].ok}}
FieldVals(res) == [f \in DOMAIN res |-> res[f].val]

Connection(c) ==
    LET res == [f \in {"driver", "username", "password", "host", "port", "database"} |->
                    IF f = "port" THEN int_field(c[f]) ELSE str_field(c[f])]
    IN  [val |-> FieldVals(res), errs |-> FieldErrs(res)]

Column(c) ==
    LET res == [f \in {"name", "type", "description"} |-> str_field(c[f])]
    IN  [val |-> FieldVals(res), errs |-> FieldErrs(res)]

Err(part, field, idx, sub, type) ==
    [part |-> part, field |-> field, idx |-> idx, sub |-> sub, type |-> type]

\* Structure that drops the features that do not validate
StructureSkipInvalid(s) ==
    LET t == Column(s.target)
        good == SelectSeq(s.features, LAMBDA c : Column(c).errs = {})
    IN  [val |-> [target |-> t.val, features |-> [i \in DOMAIN good |-> Column(good[i]).val]],
         errs |-> {Err("structure", "target", 0, e[1], e[2]) : e \in t.errs}]

\* Structure (src/app) / Schema (the other variants): target: Column, features: list[Column]
Structure(s) ==
    LET t == Column(s.target)
        fs == [i \in DOMAIN s.features |-> Column(s.features[i])]
    IN  [val |-> [target |-> t.val, features |-> [i \in DOMAIN fs |-> fs[i].val]],
         errs |-> {Err("structure", "target", 0, e[1], e[2]) : e \in t.errs}
                  \cup UNION {{Err("structure", "features", i, e[1], e[2]) : e \in fs[i].errs}
                              : i \in DOMAIN fs}]

\* the fields of Hyperparameters, as each variant annotates them
HyperparametersFields(v, h) ==
    LET res == [f \in {"loss", "learning_rate", "n_estimators", "max_depth", "min_samples_split"} |->
                    IF v \in Constrained
                    THEN CASE f = "loss" -> Loss(LossClass(v), h[f])
                           [] f = "learning_rate" -> gt0_lt1(h[f])
                           [] OTHER -> ge1(h[f])
                    ELSE CASE f = "loss" -> str_field(h[f])
                           [] f = "learning_rate" -> float_field(h[f])
                           [] OTHER -> int_field(h[f])]
    IN  [val |-> FieldVals(res),
         errs |-> {Err("hyperparameters", e[1], 0, "", e[2]) : e \in FieldErrs(res)}]

\* the model complexity that check_complexity asserts
MinComplexity == 4

\* the assertion with the threshold off by one
check_complexity_off_by_one(self) ==
    (self.max_depth.num + self.n_estimators.num) >= MinComplexity - 1

\* check_complexity's assertion
check_complexity_assert(self) == (self.max_depth.num + self.n_estimators.num) >= MinComplexity

\* a validator that runs whether or not the fields validated
runs_always(v, errs) == v \in Constrained

\* @model_validator(mode="after"): the validator runs on the instance built from
\* fields that all validated
runs_after_fields(v, errs) == v \in Constrained /\ errs = {}

\* Configuration: the instance exists only when no field of any part failed
Configuration(errs, c, s, h) ==
    IF errs = {} /\ c # <<>> /\ s # <<>> /\ h # <<>>
    THEN <<[connection |-> c[1], structure |-> s[1], hyperparameters |-> h[1]]>>
    ELSE <<>>

\* ---------------------------------------------------------------- inputs
RawColumn(n) == [name |-> n, type |-> PyStr("float"), description |-> PyStr("d")]
RawConnection(p) ==
    [driver |-> PyStr("postgres"), username |-> PyStr("u"), password |-> PyStr("p"),
     host |-> PyStr("h"), port |-> p, database |-> PyStr("db")]

Ports == {PyInt(5432), PyStr("5432"), PyStr("http")}
Targets == {RawColumn(PyStr("y")), RawColumn(PyInt(7))}
FeaturePool == {RawColumn(PyStr("x1")), RawColumn(PyInt(7))}
FeatureLists == UNION {[1..n -> FeaturePool] : n \in 0..MaxFeatures}
LossInputs == {PyStr(t) : t \in LossValues \cup {"Huber"}}
RateInputs == {PyFloat(n) : n \in {-1, 0, 1, LrDen, LrDen + 1}}
IntInputs == {PyInt(n) : n \in 0..MaxInt}
SplitInputs == {PyInt(n) : n \in -1..1}

RawConfigs ==
    [connection : {RawConnection(p) : p \in Ports},
     structure : [target : Targets, features : FeatureLists],
     hyperparameters : [loss : LossInputs, learning_rate : RateInputs,
                        n_estimators : IntInputs, max_depth : IntInputs,
                        min_samples_split : SplitInputs]]

\* ---------------------------------------------------------------- state
VARIABLES
    variant,        \* which of the three variants runs
    raw,            \* the nested value the config loader hands to app()
    pc,             \* position of app()
    errors,         \* validation errors collected so far
    connection,     \* <<>> or <<the validated Connection>>
    structure,      \* <<>> or <<the validated Structure/Schema>>
    hyperparameters,\* <<>> or <<the constructed Hyperparameters>>
    complexity,     \* "unchecked", "passed", "failed": check_complexity's outcome
    config,         \* <<>> or <<the constructed Configuration>>
    remote,         \* the calls made on the remote: created, registered, executed
    pending,        \* the task executions of the submitted workflow not yet run
    displayed       \* what the tasks printed

vars == <<variant, raw, pc, errors, connection, structure, hyperparameters,
          complexity, config, remote, pending, displayed>>

valvars == <<errors, connection, structure, hyperparameters, complexity, config>>

\* where app() starts, and where it goes after each of its steps
AppStart(v) == IF v = "flyte_hydra" THEN "validate_connection" ELSE "UnionRemote"
AfterUnionRemote(v) ==
    CASE v = "flyte_hydra" -> "fast_register_workflow"
      [] v = "app" -> "fast_register_workflow"
      [] v = "my_app" -> "validate_connection"
AfterRegister(v) == IF v = "app" THEN "validate_connection" ELSE "execute"
AfterConfiguration(v) == IF v = "flyte_hydra" THEN "UnionRemote" ELSE "execute"

Init ==
    /\ variant \in Variants
    /\ raw \in RawConfigs
    /\ pc = AppStart(variant)
    /\ errors = {}
    /\ connection = <<>>
    /\ structure = <<>>
    /\ hyperparameters = <<>>
    /\ complexity = "unchecked"
    /\ config = <<>>
    /\ remote = [created |-> FALSE, registered |-> FALSE, executed |-> FALSE]
    /\ pending = {}
    /\ displayed = [columns |-> EmptyBag, steps |-> {}]

\* ---------------------------------------------------------------- app(): construction
validate_connection ==
    /\ pc = "validate_connection"
    /\ LET r == Connection(raw.connection)
       IN  /\ errors' = errors \cup {Err("connection", e[1], 0, "", e[2]) : e \in r.errs}
           /\ connection' = IF r.errs = {} THEN <<r.val>> ELSE <<>>
    /\ pc' = "validate_structure"
    /\ UNCHANGED <<variant, raw, structure, hyperparameters, complexity, config,
                   remote, pending, displayed>>

validate_structure ==
    /\ pc = "validate_structure"
    /\ LET r == Structure(raw.structure)
       IN  /\ errors' = errors \cup r.errs
           /\ structure' = IF r.errs = {} THEN <<r.val>> ELSE <<>>
    /\ pc' = "validate_hyperparameters"
    /\ UNCHANGED <<variant, raw, connection, hyperparameters, complexity, config,
                   remote, pending, displayed>>

\* the field validation of Hyperparameters; the instance handed to the after
\* validator exists only when every field validated
validate_hyperparameters ==
    /\ pc = "validate_hyperparameters"
    /\ LET r == HyperparametersFields(variant, raw.hyperparameters)
       IN  /\ errors' = errors \cup r.errs
           /\ hyperparameters' = IF r.errs = {} THEN <<r.val>> ELSE <<>>
           /\ pc' = IF runs_after_fields(variant, r.errs)
                    THEN "check_complexity" ELSE "Configuration"
    /\ UNCHANGED <<variant, raw, connection, structure, complexity, config,
                   remote, pending, displayed>>

check_complexity ==
    /\ pc = "check_complexity"
    /\ hyperparameters # <<>>
    /\ IF check_complexity_assert(hyperparameters[1])
       THEN /\ complexity' = "passed"
            /\ UNCHANGED <<errors, hyperparameters>>
       ELSE /\ complexity' = "failed"
            /\ errors' = errors \cup {Err("hyperparameters", "", 0, "", "assertion_error")}
            /\ hyperparameters' = <<>>
    /\ pc' = "Configuration"
    /\ UNCHANGED <<variant, raw, connection, structure, config, remote, pending, displayed>>

\* the end of Configuration(...): the instance, or the ValidationError that
\* leaves app()
ConfigurationDone ==
    /\ pc = "Configuration"
    /\ config' = Configuration(errors, connection, structure, hyperparameters)
    /\ pc' = IF config' = <<>> THEN "raised" ELSE AfterConfiguration(variant)
    /\ UNCHANGED <<variant, raw, errors, connection, structure, hyperparameters,
                   complexity, remote, pending, displayed>>

\* ---------------------------------------------------------------- app(): remote
UnionRemote ==
    /\ pc = "UnionRemote"
    /\ remote' = [remote EXCEPT !.created = TRUE]
    /\ pc' = AfterUnionRemote(variant)
    /\ UNCHANGED <<variant, raw, valvars, pending, displayed>>

fast_register_workflow ==
    /\ pc = "fast_register_workflow"
    /\ remote.created
    /\ remote' = [remote EXCEPT !.registered = TRUE]
    /\ pc' = AfterRegister(variant)
    /\ UNCHANGED <<variant, raw, valvars, pending, displayed>>

\* a map that leaves out the last item of the list
map_task_skip_last(cfg) ==
    {<<"show_column", i>> : i \in DOMAIN cfg.structure.features \ {Len(cfg.structure.features)}}

\* map_task(show_column)(config.structure.features): one execution per list index
map_task(cfg) == {<<"show_column", i>> : i \in DOMAIN cfg.structure.features}

\* my_workflow: the task executions of one run of the variant's workflow
my_workflow(v, cfg) ==
    (CASE v = "app" -> {<<"show_config", 0>>, <<"show_lr", 0>>}
       [] v = "flyte_hydra" -> {<<"show_lr", 0>>}
       [] v = "my_app" -> {<<"show", 0>>})
    \cup map_task(cfg)

execute ==
    /\ pc = "execute"
    /\ remote.created
    /\ config # <<>>
    /\ remote' = [remote EXCEPT !.executed = TRUE]
    /\ pending' = my_workflow(variant, config[1])
    /\ pc' = "print_url"
    /\ UNCHANGED <<variant, raw, valvars, displayed>>

print_url ==
    /\ pc = "print_url"
    /\ pc' = "returned"
    /\ UNCHANGED <<variant, raw, valvars, remote, pending, displayed>>

\* ---------------------------------------------------------------- tasks
\* a task that prints its input and leaves it as it is
Step(name) ==
    /\ <<name, 0>> \in pending
    /\ pending' = pending \ {<<name, 0>>}
    /\ displayed' = [displayed EXCEPT !.steps = @ \cup {name}]
    /\ UNCHANGED <<variant, raw, pc, remote>>

\* a show_config that masks the password in the object it was given
show_config_masking ==
    /\ Step("show_config")
    /\ config' = <<[config[1] EXCEPT !.connection.password = PyStr("***")]>>
    /\ UNCHANGED <<errors, connection, structure, hyperparameters, complexity>>

show_config ==
    /\ Step("show_config")
    /\ UNCHANGED valvars

show_lr ==
    /\ Step("show_lr")
    /\ UNCHANGED valvars

show ==
    /\ Step("show")
    /\ UNCHANGED valvars

\* show_column (iterate in src/my_app): one execution of the mapped task
show_column ==
    \E i \in {t[2] : t \in {u \in pending : u[1] = "show_column"}} :
    /\ pending' = pending \ {<<"show_column", i>>}
    /\ displayed' = [displayed EXCEPT
                        !.columns = @ (+) SetToBag({config[1].structure.features[i]})]
    /\ UNCHANGED <<variant, raw, pc, remote, valvars>>

Next ==
    \/ validate_connection
    \/ validate_structure
    \/ validate_hyperparameters
    \/ check_complexity
    \/ ConfigurationDone
    \/ UnionRemote
    \/ fast_register_workflow
    \/ execute
    \/ print_url
    \/ show_config
    \/ show_lr
    \/ show
    \/ show_column

Spec == Init /\ [][Next]_vars

\* ================================================================ properties
\* The premises below are read off the input (raw), not off the validators.
H == raw.hyperparameters
LossIsToken ==
    H.loss.kind = "str" /\ H.loss.txt \in {"squared_error", "absolute_error", "huber", "quantile"}
RateInside == H.learning_rate.num > 0 /\ H.learning_rate.num < LrDen
CountsOk == H.n_estimators.num >= 1 /\ H.max_depth.num >= 1 /\ H.min_samples_split.num >= 1
FieldsOk == LossIsToken /\ RateInside /\ CountsOk
Sum == H.max_depth.num + H.n_estimators.num

PortParses ==
    \/ raw.connection.port.kind = "int"
    \/ raw.connection.port.kind = "str" /\ raw.connection.port.txt = "5432"
TargetOk == raw.structure.target.name.kind = "str"
FeaturesOk == \A i \in DOMAIN raw.structure.features : raw.structure.features[i].name.kind = "str"
InputValid == PortParses /\ TargetOk /\ FeaturesOk /\ FieldsOk /\ Sum >= 4

\* the construction of Hyperparameters, resp. of Configuration, has ended
HpDone == pc = "Configuration" \/ pc = "raised" \/ config # <<>>
ConstructionDone == pc = "raised" \/ config # <<>>

HpErrors == {e \in errors : e.part = "hyperparameters"}
HasErr(field, types) == \E e \in HpErrors : e.field = field /\ e.type \in types
ConstraintTypes == {"greater_than", "less_than", "greater_than_equal", "less_than_equal"}

\* C1: with every field within its own constraint, Hyperparameters is rejected with
\* the complexity error exactly when max_depth + n_estimators < 4, and accepted
\* when the sum is 4 or more.
C1_ComplexityThreshold ==
    (variant \in Constrained /\ HpDone /\ FieldsOk) =>
        /\ (Sum < 4) => (hyperparameters = <<>> /\ HasErr("", {"assertion_error"}))
        /\ (Sum >= 4) => (hyperparameters # <<>> /\ HpErrors = {})

C1_Witness ==
    /\ variant \in Constrained /\ HpDone /\ FieldsOk
    /\ H.max_depth.num = 1 /\ H.n_estimators.num = 2
    /\ hyperparameters = <<>> /\ HasErr("", {"assertion_error"})

\* C2 as stated: a valid input constructs a Configuration whose every field
\* equals (Python ==) the input field.
SameScalars(a, b) == \A f \in DOMAIN b : PyEq(a[f], b[f])
C2_FieldsEqualInput ==
    (InputValid /\ ConstructionDone) =>
        /\ config # <<>>
        /\ SameScalars(config[1].connection, raw.connection)
        /\ SameScalars(config[1].structure.target, raw.structure.target)
        /\ DOMAIN config[1].structure.features = DOMAIN raw.structure.features
        /\ \A i \in DOMAIN raw.structure.features :
              SameScalars(config[1].structure.features[i], raw.structure.features[i])
        /\ SameScalars(config[1].hyperparameters, raw.hyperparameters)

\* C2 amended: a valid input constructs a Configuration whose every field equals
\* the input field, except that port is the integer the input parses to and
\* loss is the member of the variant's Loss class whose value is the input
\* token, which equals the token only where Loss is a StrEnum (src/app) or loss
\* is plain text (src/my_app).
C2_FieldsEqualConvertedInput ==
    (InputValid /\ ConstructionDone) =>
        /\ config # <<>>
        /\ \A f \in DOMAIN raw.connection \ {"port"} : config[1].connection[f] = raw.connection[f]
        /\ config[1].connection.port.kind = "int"
        /\ raw.connection.port.kind = "int" => config[1].connection.port = raw.connection.port
        /\ raw.connection.port.kind = "str" => config[1].connection.port.num = 5432
        /\ config[1].structure.target = raw.structure.target
        /\ DOMAIN config[1].structure.features = DOMAIN raw.structure.features
        /\ \A i \in DOMAIN raw.structure.features :
              config[1].structure.features[i] = raw.structure.features[i]
        /\ \A f \in DOMAIN H \ {"loss"} : config[1].hyperparameters[f] = H[f]
        /\ config[1].hyperparameters.loss.txt = H.loss.txt
        /\ PyEq(config[1].hyperparameters.loss, H.loss) <=> variant # "flyte_hydra"

C2_Witness ==
    /\ variant = "flyte_hydra" /\ InputValid /\ config # <<>>
    /\ raw.connection.port.kind = "str"
    /\ Len(raw.structure.features) = 2
    /\ config[1].hyperparameters.loss.kind = "Enum"

\* C3: Hyperparameters is rejected with a constraint error on learning_rate
\* whenever learning_rate <= 0.0 or >= 1.0, and no value strictly inside (0, 1)
\* gets an error on learning_rate.
C3_LearningRateOpenInterval ==
    (variant \in Constrained /\ HpDone) =>
        /\ (H.learning_rate.num <= 0 \/ H.learning_rate.num >= LrDen) =>
              (hyperparameters = <<>> /\ HasErr("learning_rate", ConstraintTypes))
        /\ RateInside => ~(\E e \in HpErrors : e.field = "learning_rate")

C3_Witness ==
    /\ variant \in Constrained /\ HpDone
    /\ H.learning_rate.num = LrDen
    /\ LossIsToken /\ CountsOk /\ Sum >= 4
    /\ hyperparameters = <<>> /\ HasErr("learning_rate", {"less_than"})

C5_CountsAtLeastOne ==
    (variant \in Constrained /\ HpDone) =>
        \A f \in {"n_estimators", "max_depth", "min_samples_split"} :
            (H[f].num < 1) => (hyperparameters = <<>> /\ HasErr(f, {"greater_than_equal"}))

C5_Witness ==
    /\ variant \in Constrained /\ HpDone
    /\ H.min_samples_split.num = 0 /\ Sum >= 4
    /\ LossIsToken /\ RateInside /\ H.n_estimators.num >= 1 /\ H.max_depth.num >= 1
    /\ hyperparameters = <<>> /\ HasErr("min_samples_split", {"greater_than_equal"})

\* C6: check_complexity is evaluated only on inputs whose fields all validated;
\* an input that breaks a field constraint ends with the field error and
\* without the complexity rule having been evaluated.
C6_FieldsBeforeComplexity ==
    variant \in Constrained =>
        /\ (pc = "check_complexity" \/ complexity # "unchecked") => FieldsOk
        /\ (HpDone /\ ~FieldsOk) =>
              /\ complexity = "unchecked"
              /\ ~HasErr("", {"assertion_error"})
              /\ \E e \in HpErrors : e.field # ""

C6_Witness ==
    /\ variant \in Constrained /\ HpDone
    /\ H.max_depth.num = 0 /\ H.n_estimators.num = 1
    /\ complexity = "unchecked"
    /\ HasErr("max_depth", {"greater_than_equal"})
    /\ ~HasErr("", {"assertion_error"})

\* C7: a run whose Configuration fails validation has made no call on the
\* remote backend (registration or execution) and shows no task output.
C7_InvalidRunNeverReachesRemote ==
    pc = "raised" =>
        /\ ~remote.registered
        /\ ~remote.executed
        /\ displayed = [columns |-> EmptyBag, steps |-> {}]

\* C8: the fan-out shows each feature column exactly once per list position:
\* never more than the list holds, with shown plus outstanding items equal to the
\* n items of the list, equal to the list once no item is outstanding, and
\* nothing for the target, in every order of the items and the other steps.
BagOfSeq(s) == [c \in {s[i] : i \in DOMAIN s} |-> Cardinality({i \in DOMAIN s : s[i] = c})]
FanOutPending == {t \in pending : t[1] = "show_column"}
C8_OneDisplayPerFeature ==
    IF config = <<>> \/ ~remote.executed
    THEN displayed.columns = EmptyBag
    ELSE LET fs == config[1].structure.features
         IN  /\ displayed.columns \sqsubseteq BagOfSeq(fs)
             /\ BagCardinality(displayed.columns) + Cardinality(FanOutPending)
                    = Cardinality(DOMAIN fs)
             /\ FanOutPending = {} => displayed.columns = BagOfSeq(fs)
             /\ ~BagIn(config[1].structure.target, displayed.columns)

C8_Witness ==
    /\ remote.executed /\ config # <<>>
    /\ Cardinality(DOMAIN config[1].structure.features) = 2
    /\ FanOutPending = {} /\ pending # {}
    /\ BagCardinality(displayed.columns) = 2
    /\ pc = "print_url"

\* C9: when any nested part is invalid (the port, the target column, one
\* feature column, a Hyperparameters field or the complexity rule), no
\* Configuration is produced and the construction raises.
HpBad == variant \in Constrained /\ (~FieldsOk \/ Sum < 4)
C9_NoPartialConfiguration ==
    (~PortParses \/ ~TargetOk \/ ~FeaturesOk \/ HpBad) =>
        /\ config = <<>>
        /\ ~remote.executed
        /\ ConstructionDone => pc = "raised"

C9_Witness ==
    /\ pc = "raised" /\ config = <<>>
    /\ PortParses /\ TargetOk /\ FieldsOk /\ Sum >= 4
    /\ Len(raw.structure.features) = 2
    /\ raw.structure.features[1].name.kind = "str"
    /\ raw.structure.features[2].name.kind # "str"

\* C10: once constructed, the Configuration and its parts never change, and
\* the constructed value satisfies the field constraints and
\* max_depth + n_estimators >= 4 in every state.
ConfigSatisfies(cfg) ==
    /\ cfg.hyperparameters.loss.txt \in {"squared_error", "absolute_error", "huber", "quantile"}
    /\ cfg.hyperparameters.learning_rate.num > 0
    /\ cfg.hyperparameters.learning_rate.num < LrDen
    /\ cfg.hyperparameters.n_estimators.num >= 1
    /\ cfg.hyperparameters.max_depth.num >= 1
    /\ cfg.hyperparameters.min_samples_split.num >= 1
    /\ cfg.hyperparameters.max_depth.num + cfg.hyperparameters.n_estimators.num >= 4
    /\ cfg.connection.port.kind = "int"
C10_Immutable ==
    /\ []((config # <<>> /\ variant \in Constrained) => ConfigSatisfies(config[1]))
    /\ [][config # <<>> =>
            <<config, connection, structure, hyperparameters>>'
                = <<config, connection, structure, hyperparameters>>]_vars

C10_Witness ==
    /\ variant = "app" /\ config # <<>>
    /\ pc = "returned" /\ pending = {}
    /\ displayed.steps = {"show_config", "show_lr"}


====
